---- MODULE Spec2Model ----
(***************************************************************************)
(* Model of helm-learning/deploy.sh and helm-learning/deploy.ps1: the two  *)
(* wrapper scripts that sequence kind / kubectl / helm invocations to      *)
(* deploy, inspect and remove the echo-server release in the environments  *)
(* dev and prd.                                                            *)
(*                                                                         *)
(* The external world (kind clusters, the current kubectl context, the     *)
(* namespaces and the Helm releases) is the state; every command of the    *)
(* scripts that talks to a collaborator is logged.  One action models one  *)
(* step of a script, and pc is the script's position.                      *)
(*                                                                         *)
(* Failure semantics that the scripts rely on:                             *)
(*  - deploy.sh runs under `set -e`: a failing simple command that is not  *)
(*    the condition of an `if` ends the script with a non-zero status; the *)
(*    status of a pipeline is that of its last command (no pipefail).      *)
(*  - deploy.ps1 sets $ErrorActionPreference = "Stop".  That preference    *)
(*    governs PowerShell errors, not the exit status of a native program:  *)
(*    a failing kind/kubectl/helm call does not stop the script.  In       *)
(*    Windows PowerShell 5.1 a native program that writes to a redirected  *)
(*    stderr (2>$null) does raise a terminating error under "Stop";        *)
(*    PowerShell 7 does not.  Both editions are modelled ("ps5", "ps7").   *)
(*    A failing collaborator call is taken to write to stderr, a           *)
(*    succeeding one is not.                                               *)
(***************************************************************************)
EXTENDS Integers, Sequences, FiniteSets, TLC

\* Number of invocations of the script in one session.
MaxRuns == 2

\* Number of collaborator calls in one session that fail for a reason outside
\* the modelled state (tool unreachable, time-out of --wait).
MaxFaults == 1

\* The environments: `for ENV in dev prd`, and the arguments of deploy_environment.
Envs == {"dev", "prd"}

\* Registry order of the loops in show_status / clean_deployments.
EnvOrder == <<"dev", "prd">>

\* The interpreter that runs the script: bash for deploy.sh, Windows
\* PowerShell 5.1 or PowerShell 7 for deploy.ps1.
Scripts == {"sh", "ps5", "ps7"}

\* The prerequisite tools checked by main / Test-Prerequisites.
Tools == {"helm", "kind", "kubectl"}

\* Arguments given to the script; "" is no argument, "bogus" stands for any
\* argument that no branch of the dispatch names.
Commands == {"dev", "prd", "all", "status", "clean", "help", "--help", "-h", "", "bogus"}

\* Value of current when no usable context is selected.
NoContext == "none"

\* A release name is a sequence of text fragments, so that grep's substring
\* match and PowerShell's -eq differ as they do on the real strings.
\* "echo-server-${ENV}"
releaseName(E) == <<"echo-server-", E>>

\* A release that somebody else installed in namespace dev, whose name
\* contains the text echo-server-dev.
ForeignRelease == <<"echo-server-", "dev", "-v2">>

RelNames == {releaseName(E) : E \in Envs} \cup {ForeignRelease}

VARIABLES
    script,     \* interpreter running the script
    missing,    \* prerequisite tools that are not installed
    cmd,        \* argument of the current invocation
    run,        \* number of the current invocation
    pc,         \* position in the script
    envq,       \* environments the current command still has to process
    exit,       \* exit status, -1 while the script runs
    clusters,   \* environments E whose kind cluster nur-E exists
    current,    \* cluster selected by the current kubectl context (kind-nur-E)
    ns,         \* <<c, n>>: namespace n exists in cluster nur-c
    rel,        \* rel[<<c, n>>][r]: revision of release r in namespace n of nur-c, 0 if absent
    log,        \* collaborator calls issued by the current invocation, in order
    said,       \* <<E, message>> reports printed by the current invocation
    faults,     \* injected collaborator failures so far
    prev,       \* objects whose ensure step succeeded in the previous invocation
    start       \* clusters, namespaces and releases when the current invocation began

vars == <<script, missing, cmd, run, pc, envq, exit, clusters, current, ns, rel,
          log, said, faults, prev, start>>

world == <<clusters, current, ns, rel>>

----------------------------------------------------------------------------
\* Helpers

\* grep "pattern": the pattern occurs somewhere in the line.
IsInfix(p, s) ==
    \E i \in 0..(Len(s) - Len(p)) : SubSeq(s, i + 1, i + Len(p)) = p

Count(f) == IF f THEN 1 ELSE 0

\* kubectl and helm act on the cluster of the current context; they fail when
\* that cluster is not there.
Reachable == current \in clusters

\* One logged collaborator call.  env is the environment the script is
\* processing, tgt the cluster the call acts on, res its result.
\* truth is what a probe would have answered had it read the state faithfully
\* ("yes", "no"; "-" for a call that is not a probe); flt: the call failed for
\* a reason outside the modelled state.
Req(step, op, E, tgt, res, truth, flt) ==
    [step |-> step, op |-> op, env |-> E, tgt |-> tgt, res |-> res,
     truth |-> truth, flt |-> flt]

YesNo(b) == IF b THEN "yes" ELSE "no"

OkFail(b) == IF b THEN "ok" ELSE "fail"

\* `set -e` / $ErrorActionPreference = "Stop": does a failing collaborator call,
\* used as a plain statement, end the script?  redirected: the call carries 2>$null.
AbortsOnFailure(S, redirected) ==
    CASE S = "sh"  -> TRUE
      [] S = "ps5" -> redirected
      [] S = "ps7" -> FALSE

\* stdout of `kind get clusters 2>/dev/null`.
ListClusters(f) == IF f THEN {} ELSE clusters

\* cluster_exists / Test-ClusterExists: "yes", "no", or "throw" when the
\* redirected stderr raises a terminating error (Windows PowerShell).
cluster_exists(S, E, f) ==
    IF f /\ S = "ps5" THEN "throw"
    ELSE IF E \in ListClusters(f) THEN "yes" ELSE "no"

\* `kubectl get namespace N &>/dev/null` as a condition / Test-NamespaceExists.
\* In PowerShell 7 the native failure raises nothing, so the try block always
\* returns $true.
NamespaceExists(S, N, f) ==
    IF S = "ps7" THEN TRUE
    ELSE ~f /\ Reachable /\ <<current, N>> \in ns

\* Release names printed by `helm list -n N`.
ListReleases(N, f) ==
    IF f \/ ~Reachable THEN {}
    ELSE {r \in RelNames : rel[<<current, N>>][r] > 0}

\* `helm list -n N | grep -q "echo-server-E"` / Test-HelmReleaseExists.
ReleaseMatches(S, r, listing) ==
    IF S = "sh" THEN \E l \in listing : IsInfix(r, l)
    ELSE r \in listing

\* Variant: the loop body runs whatever the probe answered.
ClusterFoundAlways(p) == TRUE

\* show_status line 128 / clean_deployments line 155: the body of the loop runs
\* only for a cluster that the probe found.
ClusterFound(p) == p = "yes"

\* Variant: the create request is issued without looking at the probe.
NeedCreateAlways(found) == TRUE

\* deploy_environment line 47 / Deploy-Environment line 535: create when the
\* probe did not find the cluster.
NeedCreate(found) == ~found

\* Variant: the namespace is ensured before the context is switched.
DeployOrderSwapped ==
    <<"EnsureCluster", "EnsureNamespace", "SwitchContext", "InstallOrUpgrade", "DisplayStatus">>

\* The order of the steps in deploy_environment / Deploy-Environment.
DeployOrder ==
    <<"EnsureCluster", "SwitchContext", "EnsureNamespace", "InstallOrUpgrade", "DisplayStatus">>

\* The step that follows step s in deploy_environment.
After(s) == DeployOrder[(CHOOSE i \in 1..Len(DeployOrder) : DeployOrder[i] = s) + 1]

\* Variant: the status branch calls the clean function.
EntryPointStatusCleans(c) ==
    CASE c \in {"dev", "prd", "all"} -> "EnsureCluster"
      [] c \in {"status", "clean"} -> "CleanCluster"

\* The function that main calls for argument c (the case statement).
EntryPoint(c) ==
    CASE c \in {"dev", "prd", "all"} -> DeployOrder[1]
      [] c = "status" -> "StatusCluster"
      [] c = "clean" -> "CleanCluster"

\* Variant: the release is not recorded in the namespace.
SetRelDropped(c, n, r, v) == rel

\* Set the revision of release r in namespace n of cluster c.
SetRel(c, n, r, v) == [rel EXCEPT ![<<c, n>>][r] = v]

\* Does the release r exist in namespace n of the current cluster?
HasRelease(n, r) == Reachable /\ rel[<<current, n>>][r] > 0

----------------------------------------------------------------------------
\* Initial state: any external state, any script, any argument.

NoReleases == [r \in RelNames |-> 0]

\* Releases that may already be installed in namespace c of cluster nur-c.
InitNames(c) == {releaseName(c)} \cup (IF c = "dev" THEN {ForeignRelease} ELSE {})

Init ==
    /\ script \in Scripts
    /\ missing \in SUBSET Tools
    /\ cmd \in Commands
    /\ run = 1
    /\ pc = "main"
    /\ envq = <<>>
    /\ exit = -1
    /\ clusters \in SUBSET Envs
    /\ current \in Envs \cup {NoContext}
    /\ ns \in SUBSET {<<c, c>> : c \in clusters}
    /\ \E inst \in SUBSET UNION {InitNames(c) : c \in {d \in Envs : <<d, d>> \in ns}} :
          rel = [cn \in Envs \X Envs |->
                    IF cn \in ns
                    THEN [r \in RelNames |-> IF r \in inst \cap InitNames(cn[1]) THEN 1 ELSE 0]
                    ELSE NoReleases]
    /\ log = <<>>
    /\ said = {}
    /\ faults = 0
    /\ prev = {}
    /\ start = <<clusters, ns, rel>>

----------------------------------------------------------------------------
\* Ending a script

Abort ==
    /\ pc' = "done"
    /\ exit' = 1
    /\ UNCHANGED envq

\* Variant: only helm is looked for.
PrerequisitesHelmOnly(m) == "helm" \notin m

\* main lines 173-189 / Test-Prerequisites: helm, kind and kubectl are all there.
PrerequisitesMet(m) == m = {}

\* Variant: a missing argument is not mapped to help.
IsHelpNoDefault(c) == c \in {"help", "--help", "-h"}

\* main line 191 and 211 / Main line 726: no argument stands for help.
IsHelp(c) == c \in {"help", "--help", "-h", ""}

\* Variant: `all` deploys prd first.
DeployArgsReversed(c) ==
    CASE c = "dev" -> <<"dev">>
      [] c = "prd" -> <<"prd">>
      [] c = "all" -> <<"prd", "dev">>

\* main / Main: prerequisite check and dispatch on the argument.
DeployArgs(c) ==
    CASE c = "dev" -> <<"dev">>
      [] c = "prd" -> <<"prd">>
      [] c = "all" -> <<"dev", "prd">>

main ==
    /\ pc = "main"
    /\ IF ~PrerequisitesMet(missing)
       THEN /\ said' = said \cup {<<"", "missing-tool">>}
            /\ pc' = "done" /\ exit' = 1 /\ UNCHANGED envq
       ELSE CASE cmd \in {"dev", "prd", "all"} ->
                    /\ envq' = DeployArgs(cmd)
                    /\ pc' = EntryPoint(cmd)
                    /\ UNCHANGED <<exit, said>>
              [] cmd \in {"status", "clean"} ->
                    /\ envq' = EnvOrder
                    /\ pc' = EntryPoint(cmd)
                    /\ UNCHANGED <<exit, said>>
              [] IsHelp(cmd) ->
                    /\ said' = said \cup {<<"", "usage">>}
                    /\ pc' = "done" /\ exit' = 0 /\ UNCHANGED envq
              [] OTHER ->
                    /\ said' = said \cup {<<"", "unknown-option">>, <<"", "usage">>}
                    /\ pc' = "done" /\ exit' = 1 /\ UNCHANGED envq
    /\ UNCHANGED <<script, missing, cmd, run, world, log, faults, prev, start>>

\* Variant: the loop ends after its first iteration.
AdvanceStops(loop) ==
    /\ envq' = Tail(envq)
    /\ pc' = "done" /\ exit' = 0

\* End of one loop iteration / one deploy_environment call: go on with the
\* next environment, or end the script successfully.
Advance(loop) ==
    /\ envq' = Tail(envq)
    /\ IF Tail(envq) = <<>>
       THEN pc' = "done" /\ exit' = 0
       ELSE pc' = loop /\ UNCHANGED exit

\* Variant: the statement is executed again instead of the next one.
ContinueRetries(next) ==
    /\ UNCHANGED <<pc, envq, exit>>

Continue(next) ==
    /\ pc' = next
    /\ UNCHANGED <<envq, exit>>

Spend(n) ==
    /\ faults + n <= MaxFaults
    /\ faults' = faults + n

----------------------------------------------------------------------------
\* deploy_environment / Deploy-Environment

\* "Check if cluster exists" ... `kind create cluster --name "$CLUSTER_NAME"`.
\* kind create cluster also selects the context of the new cluster.
EnsureClusterAs(S) ==
    /\ pc = "EnsureCluster"
    /\ \E f1, f2 \in BOOLEAN :
        LET E      == Head(envq)
            p      == cluster_exists(S, E, f1)
            create == p # "throw" /\ NeedCreate(p = "yes")
            ok     == ~f2 /\ E \notin clusters
        IN  /\ ~create => ~f2
            /\ Spend(Count(f1) + Count(f2))
            /\ log' = log
                  \o <<Req("EnsureCluster", "list-clusters", E, E, p, YesNo(E \in clusters), f1)>>
                  \o (IF create
                      THEN <<Req("EnsureCluster", "create-cluster", E, E, OkFail(ok), "-", f2)>>
                      ELSE <<>>)
            /\ said' = said \cup (IF create THEN {<<E, "cluster-missing">>}
                                  ELSE IF p = "yes" THEN {<<E, "cluster-exists">>} ELSE {})
            /\ IF create /\ ok
               THEN clusters' = clusters \cup {E} /\ current' = E
               ELSE UNCHANGED <<clusters, current>>
            /\ IF p = "throw" \/ (create /\ ~ok /\ AbortsOnFailure(S, FALSE))
               THEN Abort
               ELSE Continue(After("EnsureCluster"))
    /\ UNCHANGED <<script, missing, cmd, run, ns, rel, prev, start>>

EnsureCluster == EnsureClusterAs(script)

\* `kubectl config use-context "kind-${CLUSTER_NAME}"`
SwitchContextAs(S) ==
    /\ pc = "SwitchContext"
    /\ \E f \in BOOLEAN :
        LET E  == Head(envq)
            ok == ~f /\ E \in clusters
        IN  /\ Spend(Count(f))
            /\ log' = Append(log, Req("SwitchContext", "use-context", E, E, OkFail(ok), "-", f))
            /\ current' = IF ok THEN E ELSE current
            /\ IF ~ok /\ AbortsOnFailure(S, FALSE)
               THEN Abort
               ELSE Continue(After("SwitchContext"))
    /\ UNCHANGED <<script, missing, cmd, run, clusters, ns, rel, said, prev, start>>

SwitchContext == SwitchContextAs(script)

\* "Create namespace if it doesn't exist": the namespace is named after the
\* environment (fourth argument of deploy_environment).
EnsureNamespaceAs(S) ==
    /\ pc = "EnsureNamespace"
    /\ \E f1, f2 \in BOOLEAN :
        LET E      == Head(envq)
            N      == E
            found  == NamespaceExists(S, N, f1)
            create == NeedCreate(found)
            ok     == ~f2 /\ Reachable /\ <<current, N>> \notin ns
        IN  /\ ~create => ~f2
            /\ Spend(Count(f1) + Count(f2))
            /\ log' = log
                  \o <<Req("EnsureNamespace", "get-namespace", E, current, YesNo(found),
                           YesNo(Reachable /\ <<current, N>> \in ns), f1)>>
                  \o (IF create
                      THEN <<Req("EnsureNamespace", "create-namespace", E, current,
                                 OkFail(ok), "-", f2)>>
                      ELSE <<>>)
            /\ ns' = IF create /\ ok THEN ns \cup {<<current, N>>} ELSE ns
            /\ IF create /\ ~ok /\ AbortsOnFailure(S, FALSE)
               THEN Abort
               ELSE Continue(After("EnsureNamespace"))
    /\ UNCHANGED <<script, missing, cmd, run, clusters, current, rel, said, prev, start>>

EnsureNamespace == EnsureNamespaceAs(script)

\* Outcomes of a blocking helm install / upgrade --wait: it succeeds, it fails
\* without effect, or the release is written and the wait times out.
WaitOutcomes == {"ok", "fault", "timeout"}

\* "Check if Helm release exists" ... helm upgrade / helm install
InstallOrUpgradeAs(S) ==
    /\ pc = "InstallOrUpgrade"
    /\ \E f1 \in BOOLEAN, o \in WaitOutcomes :
        LET E       == Head(envq)
            N       == E
            r       == releaseName(E)
            m       == ReleaseMatches(S, r, ListReleases(N, f1))
            valid   == IF m THEN HasRelease(N, r)
                       ELSE Reachable /\ <<current, N>> \in ns /\ rel[<<current, N>>][r] = 0
            applied == valid /\ o \in {"ok", "timeout"}
            ok      == valid /\ o = "ok"
            stop    == ~ok /\ AbortsOnFailure(S, FALSE)
        IN  /\ Spend(Count(f1) + Count(o # "ok"))
            /\ log' = log
                  \o <<Req("InstallOrUpgrade", "list-releases", E, current, YesNo(m),
                           YesNo(HasRelease(N, r)), f1)>>
                  \o <<Req("InstallOrUpgrade", IF m THEN "upgrade" ELSE "install", E, current,
                           OkFail(ok), "-", o # "ok")>>
            /\ rel' = IF applied
                      THEN SetRel(current, N, r, rel[<<current, N>>][r] + 1)
                      ELSE rel
            /\ said' = said \cup (IF stop THEN {} ELSE {<<E, "completed">>})
            /\ IF stop THEN Abort ELSE Continue(After("InstallOrUpgrade"))
    /\ UNCHANGED <<script, missing, cmd, run, clusters, current, ns, prev, start>>

InstallOrUpgrade == InstallOrUpgradeAs(script)

\* "Display deployment status": kubectl get deployments, pods, services with the
\* same namespace and label; the three reads are one request here.
DisplayStatusAs(S) ==
    /\ pc = "DisplayStatus"
    /\ \E f \in BOOLEAN :
        LET E  == Head(envq)
            ok == ~f /\ Reachable
        IN  /\ Spend(Count(f))
            /\ log' = Append(log, Req("DisplayStatus", "get-resources", E, current,
                                      OkFail(ok), "-", f))
            /\ IF ~ok /\ AbortsOnFailure(S, FALSE)
               THEN Abort
               ELSE Advance(DeployOrder[1])
    /\ UNCHANGED <<script, missing, cmd, run, world, said, prev, start>>

DisplayStatus == DisplayStatusAs(script)

----------------------------------------------------------------------------
\* show_status / Show-Status

\* `if cluster_exists "nur-${ENV}"` ... else "Cluster does not exist"
StatusClusterAs(S) ==
    /\ pc = "StatusCluster"
    /\ \E f \in BOOLEAN :
        LET E == Head(envq)
            p == cluster_exists(S, E, f)
        IN  /\ Spend(Count(f))
            /\ log' = Append(log, Req("StatusCluster", "list-clusters", E, E, p,
                                      YesNo(E \in clusters), f))
            /\ IF p = "throw"
               THEN Abort /\ UNCHANGED said
               ELSE IF ClusterFound(p)
               THEN /\ said' = said \cup {<<E, "header">>}
                    /\ Continue("StatusContext")
               ELSE /\ said' = said \cup {<<E, "no-cluster">>}
                    /\ Advance("StatusCluster")
    /\ UNCHANGED <<script, missing, cmd, run, world, prev, start>>

StatusCluster == StatusClusterAs(script)

\* `kubectl config use-context "${CLUSTER}" 2>/dev/null`
StatusContextAs(S) ==
    /\ pc = "StatusContext"
    /\ \E f \in BOOLEAN :
        LET E  == Head(envq)
            ok == ~f /\ E \in clusters
        IN  /\ Spend(Count(f))
            /\ log' = Append(log, Req("StatusContext", "use-context", E, E, OkFail(ok), "-", f))
            /\ current' = IF ok THEN E ELSE current
            /\ IF ~ok /\ AbortsOnFailure(S, TRUE)
               THEN Abort
               ELSE Continue("StatusRelease")
    /\ UNCHANGED <<script, missing, cmd, run, clusters, ns, rel, said, prev, start>>

StatusContext == StatusContextAs(script)

\* `if helm list | grep -q ...; then helm list | grep ...; kubectl get pods ...`
\* In bash the second pipeline fails when grep finds nothing, and `set -e` then
\* ends the script; Select-String has no such effect.
StatusReleaseAs(S) ==
    /\ pc = "StatusRelease"
    /\ \E f1, f2, f3 \in BOOLEAN :
        LET E     == Head(envq)
            N     == E
            r     == releaseName(E)
            m     == ReleaseMatches(S, r, ListReleases(N, f1))
            m2    == ReleaseMatches(S, r, ListReleases(N, f2))
            stop2 == m /\ ~m2 /\ S = "sh"
            ok3   == ~f3 /\ Reachable
            stop3 == m /\ ~stop2 /\ ~ok3 /\ AbortsOnFailure(S, FALSE)
        IN  /\ ~m => (~f2 /\ ~f3)
            /\ stop2 => ~f3
            /\ Spend(Count(f1) + Count(f2) + Count(f3))
            /\ log' = log
                  \o <<Req("StatusRelease", "list-releases", E, current, YesNo(m),
                           YesNo(HasRelease(N, r)), f1)>>
                  \o (IF m THEN <<Req("StatusRelease", "list-releases", E, current, YesNo(m2),
                                      YesNo(HasRelease(N, r)), f2)>>
                      ELSE <<>>)
                  \o (IF m /\ ~stop2
                      THEN <<Req("StatusRelease", "get-pods", E, current, OkFail(ok3), "-", f3)>>
                      ELSE <<>>)
            /\ said' = said \cup (IF m THEN {} ELSE {<<E, "no-release">>})
            /\ IF stop2 \/ stop3 THEN Abort ELSE Advance("StatusCluster")
    /\ UNCHANGED <<script, missing, cmd, run, world, prev, start>>

StatusRelease == StatusReleaseAs(script)

----------------------------------------------------------------------------
\* clean_deployments / Clean-Deployments

\* "Cleanup completed!" is printed after the loop.
Finishing == Tail(envq) = <<>>

CleanClusterAs(S) ==
    /\ pc = "CleanCluster"
    /\ \E f \in BOOLEAN :
        LET E == Head(envq)
            p == cluster_exists(S, E, f)
        IN  /\ Spend(Count(f))
            /\ log' = Append(log, Req("CleanCluster", "list-clusters", E, E, p,
                                      YesNo(E \in clusters), f))
            /\ IF p = "throw"
               THEN Abort /\ UNCHANGED said
               ELSE IF ClusterFound(p)
               THEN /\ said' = said \cup {<<E, "cleaning">>}
                    /\ Continue("CleanContext")
               ELSE /\ said' = said \cup (IF Finishing THEN {<<"", "cleanup-completed">>} ELSE {})
                    /\ Advance("CleanCluster")
    /\ UNCHANGED <<script, missing, cmd, run, world, prev, start>>

CleanCluster == CleanClusterAs(script)

\* `kubectl config use-context "${CLUSTER}" 2>/dev/null`
CleanContextAs(S) ==
    /\ pc = "CleanContext"
    /\ \E f \in BOOLEAN :
        LET E  == Head(envq)
            ok == ~f /\ E \in clusters
        IN  /\ Spend(Count(f))
            /\ log' = Append(log, Req("CleanContext", "use-context", E, E, OkFail(ok), "-", f))
            /\ current' = IF ok THEN E ELSE current
            /\ IF ~ok /\ AbortsOnFailure(S, TRUE)
               THEN Abort
               ELSE Continue("CleanRelease")
    /\ UNCHANGED <<script, missing, cmd, run, clusters, ns, rel, said, prev, start>>

CleanContext == CleanContextAs(script)

\* `if helm list | grep -q ...; then helm uninstall ...; else "No release found"`
CleanReleaseAs(S) ==
    /\ pc = "CleanRelease"
    /\ \E f1, f2 \in BOOLEAN :
        LET E    == Head(envq)
            N    == E
            r    == releaseName(E)
            m    == ReleaseMatches(S, r, ListReleases(N, f1))
            ok   == ~f2 /\ HasRelease(N, r)
            stop == m /\ ~ok /\ AbortsOnFailure(S, FALSE)
        IN  /\ ~m => ~f2
            /\ Spend(Count(f1) + Count(f2))
            /\ log' = log
                  \o <<Req("CleanRelease", "list-releases", E, current, YesNo(m),
                           YesNo(HasRelease(N, r)), f1)>>
                  \o (IF m THEN <<Req("CleanRelease", "uninstall", E, current, OkFail(ok), "-", f2)>>
                      ELSE <<>>)
            /\ rel' = IF m /\ ok THEN SetRel(current, N, r, 0) ELSE rel
            /\ said' = said
                  \cup (IF ~m THEN {<<E, "no-release">>}
                        ELSE IF stop THEN {} ELSE {<<E, "uninstalled">>})
                  \cup (IF ~stop /\ Finishing THEN {<<"", "cleanup-completed">>} ELSE {})
            /\ IF stop THEN Abort ELSE Advance("CleanCluster")
    /\ UNCHANGED <<script, missing, cmd, run, clusters, current, ns, prev, start>>

CleanRelease == CleanReleaseAs(script)

----------------------------------------------------------------------------
\* The script is run again, on the external state the last run left behind.

Entries(step) == {i \in 1..Len(log) : log[i].step = step}

\* Objects whose ensure step ran and did not fail in the invocation that ended:
\* <<"cluster", E>> for the cluster nur-E, <<"namespace", c, n>> for namespace n
\* of cluster nur-c.
Ensured ==
    {<<"cluster", log[i].env>> : i \in {j \in Entries("EnsureCluster") :
        /\ log[j].op = "list-clusters" /\ log[j].res # "throw"
        /\ ~\E k \in Entries("EnsureCluster") :
              log[k].env = log[j].env /\ log[k].res = "fail"}}
    \cup
    {<<"namespace", log[i].tgt, log[i].env>> : i \in {j \in Entries("EnsureNamespace") :
        /\ log[j].op = "get-namespace"
        /\ ~\E k \in Entries("EnsureNamespace") :
              log[k].env = log[j].env /\ log[k].res = "fail"}}

Invoke ==
    /\ pc = "done"
    /\ run < MaxRuns
    /\ run' = run + 1
    /\ cmd' \in Commands
    /\ pc' = "main"
    /\ exit' = -1
    /\ envq' = <<>>
    /\ log' = <<>>
    /\ said' = {}
    /\ prev' = Ensured
    /\ start' = <<clusters, ns, rel>>
    /\ UNCHANGED <<script, missing, world, faults>>

Next ==
    \/ main
    \/ EnsureCluster
    \/ SwitchContext
    \/ EnsureNamespace
    \/ InstallOrUpgrade
    \/ DisplayStatus
    \/ StatusCluster
    \/ StatusContext
    \/ StatusRelease
    \/ CleanCluster
    \/ CleanContext
    \/ CleanRelease
    \/ Invoke

Spec == Init /\ [][Next]_vars

\* One step of the running script: the statement at pc is executed and the
\* collaborator calls it makes have returned.
Step ==
    \/ main
    \/ EnsureCluster
    \/ SwitchContext
    \/ EnsureNamespace
    \/ InstallOrUpgrade
    \/ DisplayStatus
    \/ StatusCluster
    \/ StatusContext
    \/ StatusRelease
    \/ CleanCluster
    \/ CleanContext
    \/ CleanRelease

\* The script is one sequential process: while it has not ended, its next
\* statement is executed, each collaborator call returning in the end.  Nothing
\* obliges the user to run the script again.
FairSpec == Init /\ [][Next]_vars /\ WF_vars(Step)

----------------------------------------------------------------------------
\* Vocabulary of the properties

Idx == 1..Len(log)

\* Calls that address the cluster of the current context (kubectl, helm),
\* other than the context switch itself.
ContextOps == {"get-namespace", "create-namespace", "list-releases", "install",
               "upgrade", "uninstall", "get-resources", "get-pods"}

\* Calls that change clusters, namespaces or releases.
MutatingOps == {"create-cluster", "create-namespace", "install", "upgrade", "uninstall"}

\* A step of environment E failed: one of its effecting commands failed.
Failed(i) == log[i].res = "fail"

\* The steps of the plan in Install mode.
PlanOrder == <<"EnsureCluster", "SwitchContext", "EnsureNamespace", "InstallOrUpgrade">>

\* The call that opens each step.
FirstOp(s) ==
    CASE s = "EnsureCluster" -> "list-clusters"
      [] s = "SwitchContext" -> "use-context"
      [] s = "EnsureNamespace" -> "get-namespace"
      [] s = "InstallOrUpgrade" -> "list-releases"

Ran(E, s) == \E i \in Idx : log[i].env = E /\ log[i].step = s

Deploying == cmd \in {"dev", "prd", "all"}

----------------------------------------------------------------------------
\* C1: a failed step of environment dev never prevents the steps of
\* environment prd from being executed: when a command that covers both
\* environments has ended and a step of dev failed, the steps of prd were run.
C1_FailureIsolated ==
    (pc = "done" /\ cmd \in {"all", "status", "clean"}
        /\ \E i \in Idx : log[i].env = "dev" /\ Failed(i))
    => \E j \in Idx : log[j].env = "prd"

\* C2: ensure is idempotent.  A create request directly follows a probe that
\* answered "no"; and when the ensure step of a cluster (of a namespace)
\* succeeded in the previous run, the step of this run, its probe being
\* answered, finds the object, issues no create request and does not fail.
C2_EnsureIdempotent ==
    /\ \A i \in Idx :
          log[i].op \in {"create-cluster", "create-namespace"}
          => /\ i > 1
             /\ log[i - 1].op = (IF log[i].op = "create-cluster"
                                 THEN "list-clusters" ELSE "get-namespace")
             /\ log[i - 1].env = log[i].env
             /\ log[i - 1].res = "no"
    /\ \A i \in Idx :
          /\ log[i].step = "EnsureCluster" /\ log[i].op = "list-clusters"
             /\ ~log[i].flt /\ <<"cluster", log[i].env>> \in prev
             => /\ log[i].res = "yes"
                /\ ~\E j \in Idx : log[j].op = "create-cluster" /\ log[j].env = log[i].env
          /\ log[i].step = "EnsureNamespace" /\ log[i].op = "get-namespace"
             /\ ~log[i].flt /\ <<"namespace", log[i].tgt, log[i].env>> \in prev
             => /\ log[i].res = "yes"
                /\ ~\E j \in Idx : log[j].op = "create-namespace" /\ log[j].env = log[i].env

\* A second deploy of dev by deploy.sh has run both ensure steps on objects
\* that the first deploy created.
C2_Witness ==
    /\ script = "sh" /\ run = 2 /\ pc = "done" /\ exit = 0
    /\ {<<"cluster", "dev">>, <<"namespace", "dev", "dev">>} \subseteq prev
    /\ start[1] = {"dev"} /\ <<"dev", "dev">> \in start[2]
    /\ \E i, j \in Idx :
          /\ log[i].op = "list-clusters" /\ log[i].env = "dev" /\ log[i].res = "yes"
          /\ log[j].op = "get-namespace" /\ log[j].env = "dev" /\ log[j].res = "yes"

\* C3: the InstallOrUpgrade step issues an Upgrade request exactly when a
\* release named echo-server-<E> exists in the namespace at the time of the
\* probe (the probe being answered), and an Install request otherwise.
C3_UpgradeIffReleaseExists ==
    \A i \in Idx :
        log[i].op \in {"install", "upgrade"}
        => /\ i > 1
           /\ log[i - 1].op = "list-releases"
           /\ ~log[i - 1].flt
              => (log[i].op = "upgrade" <=> log[i - 1].truth = "yes")

StepRank(s) ==
    IF s = "DisplayStatus" THEN Len(PlanOrder) + 1
    ELSE CHOOSE k \in 1..Len(PlanOrder) : PlanOrder[k] = s

Opened(E, s) ==
    {i \in Idx : log[i].env = E /\ log[i].step = s /\ log[i].op = FirstOp(s)}

C5_StepOrder ==
    Deploying =>
        \A E \in Envs :
            /\ \A k \in 1..Len(PlanOrder) : Cardinality(Opened(E, PlanOrder[k])) <= 1
            /\ \A k \in 2..Len(PlanOrder) :
                  Ran(E, PlanOrder[k]) => Opened(E, PlanOrder[k - 1]) # {}
            /\ \A i, j \in Idx :
                  i < j /\ log[i].env = E /\ log[j].env = E
                  => StepRank(log[i].step) <= StepRank(log[j].step)
            /\ (pc = "done" /\ exit = 0 /\ cmd \in {E, "all"})
                  => \A k \in 1..Len(PlanOrder) : Cardinality(Opened(E, PlanOrder[k])) = 1

\* `all` has run to its end: both environments went through the four steps.
C5_Witness ==
    /\ cmd = "all" /\ pc = "done" /\ exit = 0
    /\ \A E \in Envs : \E i \in Idx :
          log[i].env = E /\ log[i].op \in {"install", "upgrade"} /\ log[i].res = "ok"

C7_AbsentReleaseSkipped ==
    \A i \in Idx :
        /\ log[i].step = "CleanRelease" /\ log[i].op = "list-releases"
        /\ log[i].truth = "no" /\ log[i].env \in clusters
        => ~\E j \in Idx :
              /\ j > i /\ log[j].env = log[i].env
              /\ log[j].op = "uninstall" \/ Failed(j)

\* C8: clean skips an environment whose cluster does not exist (its probe is
\* the only call issued for it) and then goes on with the next environment,
\* in the order dev, prd.
C8_CleanSkipsMissingCluster ==
    cmd = "clean" =>
        /\ \A i \in Idx : log[i].env \notin clusters => log[i].op = "list-clusters"
        /\ \A i \in Idx :
              log[i].env = "dev" /\ log[i].op = "list-clusters" /\ log[i].res = "no"
              => \/ i = Len(log) /\ pc = "CleanCluster" /\ envq = <<"prd">>
                 \/ i < Len(log) /\ log[i + 1].env = "prd" /\ log[i + 1].op = "list-clusters"
        /\ \A i, j \in Idx : i < j => ~(log[i].env = "prd" /\ log[j].env = "dev")

\* clean has skipped dev, whose cluster is missing, and uninstalled prd's release.
C8_Witness ==
    /\ cmd = "clean" /\ pc = "done" /\ exit = 0
    /\ clusters = {"prd"}
    /\ \E i \in Idx : log[i].env = "dev" /\ log[i].res = "no"
    /\ \E i \in Idx : log[i].env = "prd" /\ log[i].op = "uninstall" /\ log[i].res = "ok"

\* C9: status reports "cluster does not exist" for an environment whose
\* cluster is absent, with the cluster probe as the only call issued for it
\* (no context switch, no helm list), and goes on with the next environment.
C9_StatusSkipsMissingCluster ==
    cmd = "status" =>
        /\ \A i \in Idx :
              log[i].env \notin clusters
              => /\ log[i].op = "list-clusters"
                 /\ log[i].res = "no" => said \cap ({log[i].env} \X {"no-cluster", "header", "no-release"})
                                              = {<<log[i].env, "no-cluster">>}
        /\ \A i \in Idx :
              log[i].env = "dev" /\ log[i].op = "list-clusters" /\ log[i].res = "no"
              => \/ i = Len(log) /\ pc = "StatusCluster" /\ envq = <<"prd">>
                 \/ i < Len(log) /\ log[i + 1].env = "prd" /\ log[i + 1].op = "list-clusters"

\* status has reported dev's missing cluster and then prd's release.
C9_Witness ==
    /\ cmd = "status" /\ pc = "done" /\ exit = 0
    /\ clusters = {"prd"}
    /\ <<"dev", "no-cluster">> \in said
    /\ \E i \in Idx : log[i].env = "prd" /\ log[i].op = "get-pods" /\ log[i].res = "ok"

\* C10: status is read-only: clusters, namespaces and releases with their
\* revisions are as they were when the command began, and no create, install,
\* upgrade or uninstall request is issued.
C10_StatusReadOnly ==
    cmd = "status" =>
        /\ <<clusters, ns, rel>> = start
        /\ \A i \in Idx : log[i].op \notin MutatingOps

\* status has run to its end over two clusters and has read a release.
C10_Witness ==
    /\ cmd = "status" /\ pc = "done" /\ exit = 0
    /\ clusters = Envs
    /\ \E i \in Idx : log[i].op = "get-pods" /\ log[i].res = "ok" /\ log[i].env = "dev"
    /\ \E c \in Envs : rel[<<c, c>>][releaseName(c)] > 1

\* The commands that process environments.
Operating == cmd \in {"dev", "prd", "all", "status", "clean"}

\* C11: a command that has ended exits with status 2 when a required tool is
\* missing, and otherwise with status 0 exactly when none of its steps failed
\* and with status 1 when one did.
C11_ExitStatus ==
    pc = "done" =>
        /\ missing # {} => exit = 2
        /\ missing = {} /\ Operating
           => /\ exit = 0 <=> ~\E i \in Idx : Failed(i)
              /\ (\E i \in Idx : Failed(i)) => exit = 1

\* C12: with a prerequisite tool missing, whatever the argument, the script
\* ends with an error before it issues any call: nothing is logged, no
\* environment is taken up, and clusters, namespaces and releases are as they
\* were.
C12_MissingToolIsFatal ==
    missing # {} =>
        /\ log = <<>> /\ envq = <<>>
        /\ pc \in {"main", "done"}
        /\ <<clusters, ns, rel>> = start
        /\ pc = "done" => exit = 1 /\ said = {<<"", "missing-tool">>}

\* `all` was asked for without kind installed, and the script has ended.
C12_Witness ==
    /\ missing = {"kind"} /\ cmd = "all"
    /\ pc = "done" /\ exit = 1

\* C13: a cluster probe whose call failed is never answered "exists" or
\* "does not exist": it is fatal to the step.
C13_ProbeErrorIsFatal ==
    \A i \in Idx :
        log[i].op = "list-clusters" /\ log[i].flt => log[i].res \notin {"yes", "no"}

\* No collaborator call of the current invocation failed for an outside reason.
NoFault == \A i \in Idx : ~log[i].flt

\* C14: `all`, started with no cluster and with collaborators that succeed,
\* runs eight steps (the four steps once for dev and once for prd), creates
\* both clusters, installs (does not upgrade) both releases, and no step fails.
C14_FreshDeployAll ==
    (cmd = "all" /\ missing = {} /\ start[1] = {} /\ pc = "done" /\ NoFault)
    => /\ \A E \in Envs :
            /\ \A k \in 1..Len(PlanOrder) : Cardinality(Opened(E, PlanOrder[k])) = 1
            /\ \E i \in Idx : log[i].env = E /\ log[i].op = "create-cluster" /\ log[i].res = "ok"
            /\ \E i \in Idx : log[i].env = E /\ log[i].op = "install" /\ log[i].res = "ok"
            /\ ~\E i \in Idx : log[i].env = E /\ log[i].op = "upgrade"
       /\ ~\E i \in Idx : Failed(i)
       /\ exit = 0

\* C15: environments are processed one after the other: no call for dev
\* follows a call for prd, and once a call for prd is issued by all, status or
\* clean, dev is no longer the environment being processed (its deploy has
\* reached its last step).
C15_Sequential ==
    /\ \A i, j \in Idx : i < j => ~(log[i].env = "prd" /\ log[j].env = "dev")
    /\ (cmd \in {"all", "status", "clean"} /\ \E i \in Idx : log[i].env = "prd")
       => /\ envq # <<>> => Head(envq) = "prd"
          /\ cmd = "all" => Ran("dev", "DisplayStatus")

\* `all` is inside prd's steps after having gone through dev's.
C15_Witness ==
    /\ cmd = "all" /\ pc = "InstallOrUpgrade" /\ Head(envq) = "prd"
    /\ Ran("dev", "InstallOrUpgrade") /\ Ran("prd", "EnsureNamespace")

\* One step of the script as interpreter S would take it.
StepAs(S) ==
    \/ main
    \/ EnsureClusterAs(S)
    \/ SwitchContextAs(S)
    \/ EnsureNamespaceAs(S)
    \/ InstallOrUpgradeAs(S)
    \/ DisplayStatusAs(S)
    \/ StatusClusterAs(S)
    \/ StatusContextAs(S)
    \/ StatusReleaseAs(S)
    \/ CleanClusterAs(S)
    \/ CleanContextAs(S)
    \/ CleanReleaseAs(S)
    \/ Invoke

\* C17: deploy.sh and deploy.ps1 are equivalent: from every state, with the
\* same collaborator outcomes, every step that one script takes (the requests
\* it issues, the external state and the exit status it leaves) is the step
\* that the other takes.
C17_ScriptsEquivalent == [][\A S \in Scripts : StepAs(S)]_vars

Other(E) == IF E = "dev" THEN "prd" ELSE "dev"

Deployed(E) ==
    /\ cmd \in {E, "all"} /\ pc = "done" /\ exit = 0
    /\ ~\E i \in Idx : log[i].env = E /\ Failed(i)

\* C20: after a deploy of E that completed successfully the cluster nur-E
\* exists, namespace E exists in it and holds the release echo-server-E, and
\* the current context is kind-nur-E; after an `all` that completed
\* successfully for both environments the current context is kind-nur-prd.
C20_DeployEstablishes ==
    \A E \in Envs :
        Deployed(E)
        => /\ E \in clusters
           /\ <<E, E>> \in ns
           /\ rel[<<E, E>>][releaseName(E)] > 0
           /\ cmd = E => current = E
           /\ (cmd = "all" /\ \A D \in Envs : Deployed(D)) => current = "prd"

\* `all` has completed successfully for both environments, creating dev's
\* cluster on the way.
C20_Witness ==
    /\ Deployed("dev") /\ Deployed("prd") /\ cmd = "all"
    /\ "dev" \notin start[1]
    /\ \E i \in Idx : log[i].env = "prd" /\ log[i].op = "upgrade"


\* A clean that completed successfully.
CleanEnded == cmd = "clean" /\ pc = "done" /\ exit = 0

\* C21: `clean` only removes releases.  During a clean no cluster and no
\* namespace is created or deleted and no release is installed or upgraded, and
\* once the clean has ended with status 0 no release echo-server-E is left in
\* an environment E whose cluster exists.
C21_CleanOnlyRemovesReleases ==
    cmd = "clean" =>
        /\ \A i \in Idx : log[i].op \notin {"create-cluster", "create-namespace",
                                            "install", "upgrade"}
        /\ clusters = start[1] /\ ns = start[2]
        /\ \A cn \in Envs \X Envs : \A r \in RelNames : rel[cn][r] <= start[3][cn][r]
        /\ CleanEnded => \A E \in clusters : rel[<<E, E>>][releaseName(E)] = 0


\* Calls i and j are the same request of the same step for the same environment.
SameCall(i, j) ==
    /\ log[i].env = log[j].env
    /\ log[i].step = log[j].step
    /\ log[i].op = log[j].op

\* No step issues a call again for the same environment.  The one call that
\* is written twice in the code is the release listing of show_status (the
\* condition at line 131 and the display at line 132), issued back to back.
NoRetry ==
    \A i, j \in Idx :
        (i < j /\ SameCall(i, j))
        => /\ log[i].step = "StatusRelease" /\ log[i].op = "list-releases"
           /\ j = i + 1
           /\ \A k \in Idx : SameCall(i, k) => k \in {i, j}

\* C22: every command terminates.  Each collaborator call returning, a script
\* that was started reaches its end or an error exit, and on the way it issues
\* no call twice for the same environment and step: each environment is
\* processed at most once and nothing is retried.
C22_EveryCommandTerminates ==
    /\ []NoRetry
    /\ (pc # "done") ~> (pc = "done")

\* `all` has ended after both environments went through every step, the wait
\* of one install having timed out.
C22_Witness ==
    /\ cmd = "all" /\ pc = "done"
    /\ \A E \in Envs : Ran(E, "DisplayStatus")
    /\ \E i \in Idx : log[i].op \in {"install", "upgrade"} /\ log[i].flt

====
